---- MODULE Spec2Model ----
(***************************************************************************)
(* OptionsChecker (src/OptionsChecker.mjs, lines 1-435): a schema-driven   *)
(* validator of options objects.  JavaScript values are modelled as tagged *)
(* tuples, the checker as a state machine whose actions are its methods.   *)
(***************************************************************************)
EXTENDS Integers, Sequences, FiniteSets, TLC

VARIABLES
    optionsDefinition,  \* this.optionsDefinition (mutated in place by the alias expansion)
    contextStr,         \* this.contextStr
    verbose,            \* this.verbose
    debug,              \* this.debug
    strictDefault,      \* this.strictDefault
    call                \* the call whose outcome the caller has yet to take: its name, argument and outcome

vars == <<optionsDefinition, contextStr, verbose, debug, strictDefault, call>>

----------------------------------------------------------------------------
(* JavaScript values *)

Undefined == <<"undefined">>
Null == <<"null">>
Num(n) == <<"number", n>>
\* the number NaN
NaN == <<"NaN">>
Str(s) == <<"string", s>>
Bool(b) == <<"boolean", b>>
Fn(id) == <<"function", id>>
\* an object: its constructor's name, its own keys in insertion order, its properties
Obj(cls, keys, map) == <<"object", cls, keys, map>>
Arr(elems) == <<"array", elems>>

EmptyObject == Obj("Object", <<>>, <<>>)

SeqRange(s) == {s[i] : i \in 1..Len(s)}

\* {k1: v1} and {k1: v1, k2: v2} literals
Obj1(k1, v1) == Obj("Object", <<k1>>, [k \in {k1} |-> v1])
Obj2(k1, v1, k2, v2) == Obj("Object", <<k1, k2>>, [k \in {k1, k2} |-> IF k = k1 THEN v1 ELSE v2])

\* typeof v
TypeOf(v) ==
    CASE v[1] = "null" -> "object"
      [] v[1] = "array" -> "object"
      [] v[1] = "NaN" -> "number"
      [] OTHER -> v[1]

\* Array.isArray(v)
IsArray(v) == v[1] = "array"

\* o[k] for a value o that is neither null nor undefined
Get(o, k) == IF o[1] = "object" /\ k \in DOMAIN o[4] THEN o[4][k] ELSE Undefined

\* o[k] = v on an object
Put(o, k, v) ==
    IF k \in DOMAIN o[4]
    THEN Obj(o[2], o[3], [o[4] EXCEPT ![k] = v])
    ELSE Obj(o[2], Append(o[3], k), [x \in DOMAIN o[4] \cup {k} |-> IF x = k THEN v ELSE o[4][x]])

\* the keys a for-in loop visits
Keys(o) == IF o[1] = "object" THEN o[3] ELSE <<>>

\* truthiness of a value, as in `if (v)` and `!v`
Truthy(v) ==
    CASE v[1] = "undefined" -> FALSE
      [] v[1] = "null" -> FALSE
      [] v[1] = "NaN" -> FALSE
      [] v[1] = "boolean" -> v[2]
      [] v[1] = "number" -> v[2] # 0
      [] v[1] = "string" -> v[2] # ""
      [] OTHER -> TRUE

\* a < b, a > b and a <= b on numbers: every comparison with NaN is false
LessThan(a, b) == a[1] = "number" /\ b[1] = "number" /\ a[2] < b[2]
GreaterThan(a, b) == a[1] = "number" /\ b[1] = "number" /\ a[2] > b[2]
LessOrEqual(a, b) == a[1] = "number" /\ b[1] = "number" /\ a[2] <= b[2]

\* v instanceof cls, for a class given as the function value Fn(name)
InstanceOf(v, cls) == v[1] = "object" /\ v[2] = cls[2]

\* `${v}` for the primitives the messages interpolate
Show(v) ==
    CASE v[1] = "number" -> ToString(v[2])
      [] v[1] = "string" -> v[2]
      [] v[1] = "boolean" -> (IF v[2] THEN "true" ELSE "false")
      [] v[1] = "object" -> "[object Object]"
      [] v[1] = "array" -> "[array]"
      [] OTHER -> v[1]

----------------------------------------------------------------------------
(* Errors and console output *)

NoError == [name |-> "", message |-> ""]
Error(msg) == [name |-> "Error", message |-> msg]
\* reading a property of null or undefined
TypeError(of) == [name |-> "TypeError", message |-> "Cannot read properties of " \o of]
\* `${e}` for a caught error e
ErrorToString(e) == e.name \o ": " \o e.message

NoLog == [log |-> 0, warn |-> 0, error |-> 0]
Lines(l, w, e) == [log |-> l, warn |-> w, error |-> e]
AddLog(a, b) == [log |-> a.log + b.log, warn |-> a.warn + b.warn, error |-> a.error + b.error]
\* `flag && console.log(...)`, n times
DebugLog(flag, n) == IF flag THEN Lines(n, 0, 0) ELSE NoLog

----------------------------------------------------------------------------
(* Helpers of the engine *)

\* String.prototype.toLowerCase on the type tokens
toLowerCase(s) ==
    CASE s = "NonEmptyString" -> "nonemptystring"
      [] s = "NumberGreaterThanZero" -> "numbergreaterthanzero"
      [] s = "NonZeroNumber" -> "nonzeronumber"
      [] s = "Array" -> "array"
      [] s = "Bool" -> "bool"
      [] s = "someBadType" -> "somebadtype"
      [] OTHER -> s

_normalizeTypeString(typeStr) ==
    LET type == toLowerCase(typeStr)
    IN  CASE type = "bool" -> "boolean"
          [] type = "func" -> "function"
          [] type = "nonemptystring" -> "NonEmptyString"
          [] type = "numbergreaterthanzero" -> "NumberGreaterThanZero"
          [] type = "nonzeronumber" -> "NonZeroNumber"
          [] OTHER -> type

\* sPrettyPrint reads value.constructor, which throws a TypeError on null
sPrettyPrintThrows(value) == value[1] = "null"

sPrettyPrint(value) ==
    CASE value[1] = "string" -> "'" \o value[2] \o "'"
      [] value[1] = "array" -> "[Array]"
      [] value[1] = "object" -> (IF value[2] # "Object" THEN "[" \o value[2] \o "]" ELSE "[Object]")
      [] OTHER -> Show(value)

\* value.constructor.name of an object or an array
ConstructorName(value) == IF value[1] = "array" THEN "Array" ELSE value[2]

\* The functions the schemas of the model use as customCheck and
\* transformFunction:
\*   isPositive:  (v) => typeof v === 'number' && v > 0
\*   wrap:        (v) => [v]
\*   toUndefined: (v) => undefined
Apply(f, v) ==
    CASE f[2] = "isPositive" -> Bool(v[1] = "number" /\ v[2] > 0)
      [] f[2] = "wrap" -> Arr(<<v>>)
      [] OTHER -> Undefined

\* what one pass of the loop body hands back: an exception, or the value (if
\* any) assigned to cleanOptions[optionName], with the definition as the pass
\* left it and the console lines it wrote
Thrown(err, def, log) == [thrown |-> TRUE, err |-> err, assigned |-> FALSE, value |-> Undefined, def |-> def, log |-> log]
Assigned(value, def, log) == [thrown |-> FALSE, err |-> NoError, assigned |-> TRUE, value |-> value, def |-> def, log |-> log]
NotAssigned(def, log) == [thrown |-> FALSE, err |-> NoError, assigned |-> FALSE, value |-> Undefined, def |-> def, log |-> log]

\* what the type switch hands back
CheckPass(def, log) == [thrown |-> FALSE, err |-> NoError, checkFail |-> FALSE, checkFailMessage |-> "", cleanValueAssigned |-> FALSE, value |-> Undefined, def |-> def, log |-> log]
CheckFail(msg, def, log) == [thrown |-> FALSE, err |-> NoError, checkFail |-> TRUE, checkFailMessage |-> msg, cleanValueAssigned |-> FALSE, value |-> Undefined, def |-> def, log |-> log]
CheckClean(value, def, log) == [thrown |-> FALSE, err |-> NoError, checkFail |-> FALSE, checkFailMessage |-> "", cleanValueAssigned |-> TRUE, value |-> value, def |-> def, log |-> log]
CheckThrown(err, def, log) == [thrown |-> TRUE, err |-> err, checkFail |-> FALSE, checkFailMessage |-> "", cleanValueAssigned |-> FALSE, value |-> Undefined, def |-> def, log |-> log]

\* the error _throwError throws
_throwErrorMessage(message, context) == context \o " : " \o message
\* the console lines _throwError writes
_throwErrorLog(isVerbose) == IF isVerbose THEN Lines(0, 0, 1) ELSE NoLog

_throwError(message, context, isVerbose, def, log) ==
    Thrown(Error(_throwErrorMessage(message, context)), def, AddLog(log, _throwErrorLog(isVerbose)))

\* a check failure whose message pretty-prints the value
FailPrinting(prefix, value, suffix, def) ==
    IF sPrettyPrintThrows(value)
    THEN CheckThrown(TypeError("null (reading 'constructor')"), def, NoLog)
    ELSE CheckFail(prefix \o sPrettyPrint(value) \o suffix, def, NoLog)

\* the meta-schema the constructor checks its argument against
checkerOptionsDefinition ==
    Obj("Object", <<"optionsDefinition", "context", "strictDefault", "verbose", "debug">>,
        [k \in {"optionsDefinition", "context", "strictDefault", "verbose", "debug"} |->
            CASE k = "optionsDefinition" -> Obj2("type", Str("object"), "required", Bool(TRUE))
              [] k = "context" -> Obj2("type", Str("NonEmptyString"), "required", Bool(TRUE))
              [] OTHER -> Obj2("type", Str("boolean"), "default", Bool(FALSE))])

NoChecker == [optionsDefinition |-> Undefined, contextStr |-> "", verbose |-> FALSE, strictDefault |-> FALSE, debug |-> FALSE]

----------------------------------------------------------------------------
(* The engine: _getCleanOptions, and the constructor it calls for nested   *)
(* object and array-element definitions                                    *)

RECURSIVE _getCleanOptions(_, _, _, _, _, _)
RECURSIVE constructor(_, _, _)

\* a mutation of SubCheckerOptions: the sub-checker is given strictDefault: true
SubCheckerOptionsStrict(defs, context, isVerbose, isDebug) ==
    Obj("Object", <<"optionsDefinition", "context", "strictDefault", "verbose", "debug">>,
        [k \in {"optionsDefinition", "context", "strictDefault", "verbose", "debug"} |->
            CASE k = "optionsDefinition" -> defs
              [] k = "context" -> Str(context)
              [] k = "strictDefault" -> Bool(TRUE)
              [] k = "verbose" -> Bool(isVerbose)
              [] OTHER -> Bool(isDebug)])

\* the argument of the constructor of a sub-checker (src lines 325-330 and 367-371)
SubCheckerOptions(defs, context, isVerbose, isDebug) ==
    Obj("Object", <<"optionsDefinition", "context", "verbose", "debug">>,
        [k \in {"optionsDefinition", "context", "verbose", "debug"} |->
            CASE k = "optionsDefinition" -> defs
              [] k = "context" -> Str(context)
              [] k = "verbose" -> Bool(isVerbose)
              [] OTHER -> Bool(isDebug)])

\* newOc.getCleanOptions(optionsObject) (src lines 136-138)
checkerGetCleanOptions(newOc, optionsObject) ==
    _getCleanOptions(optionsObject, newOc.optionsDefinition, newOc.contextStr, newOc.verbose, newOc.debug, newOc.strictDefault)

\* a mutation of nestedObjectChecked: the sub-checker's exception is not caught
nestedObjectCheckedUncaught(r, def, log) ==
    IF r.ok
    THEN CheckClean(r.clean, Put(def, "objectDefinition", r.defs), AddLog(log, r.log))
    ELSE CheckThrown(r.err, Put(def, "objectDefinition", r.defs), AddLog(log, r.log))

\* a mutation of nestedObjectChecked: the raw nested object is kept as it is
nestedObjectCheckedVerbatim(r, def, log) ==
    IF r.ok
    THEN CheckPass(Put(def, "objectDefinition", r.defs), AddLog(log, r.log))
    ELSE CheckFail(ErrorToString(r.err), Put(def, "objectDefinition", r.defs), AddLog(log, r.log))

\* src lines 331-342: r is the outcome of newOc.getCleanOptions(value), which
\* the try block catches
nestedObjectChecked(r, def, log) ==
    IF r.ok
    THEN CheckClean(r.clean, Put(def, "objectDefinition", r.defs), AddLog(log, r.log))
    ELSE CheckFail(ErrorToString(r.err), Put(def, "objectDefinition", r.defs), AddLog(log, r.log))

\* src lines 325-342: newOc is the outcome of the constructor, called outside
\* the try block
nestedObjectCheck(newOc, value, def) ==
    IF ~newOc.ok
    THEN CheckThrown(newOc.err, def, newOc.log)
    ELSE nestedObjectChecked(checkerGetCleanOptions(newOc.this, value), def, newOc.log)

checkObjectDefinition(value, def, optionName, context, isVerbose, isDebug) ==
    nestedObjectCheck(constructor(SubCheckerOptions(Get(def, "objectDefinition"), context \o " : " \o optionName, isVerbose, isDebug),
                                  Null, Bool(FALSE)),
                      value, def)

\* src lines 365-373: the callback of map, applied to the elements from the
\* i-th on; the first element that throws ends the map
RECURSIVE mapElements(_, _, _, _, _, _, _, _)

\* a mutation of elementChecked: the clean elements are collected in reverse order
elementCheckedReversed(r, i, elems, mapped, prefix, isVerbose, isDebug, log) ==
    IF ~r.ok
    THEN [ok |-> FALSE, err |-> r.err, value |-> Undefined, elementDefinition |-> Get(r.defs, "element"), log |-> AddLog(log, r.log)]
    ELSE mapElements(i + 1, elems, <<Get(r.clean, "element")>> \o mapped, Get(r.defs, "element"),
                     prefix, isVerbose, isDebug, AddLog(log, r.log))

\* r is the outcome of newOc.getCleanOptions({element: ele}) for the i-th element
elementChecked(r, i, elems, mapped, prefix, isVerbose, isDebug, log) ==
    IF ~r.ok
    THEN [ok |-> FALSE, err |-> r.err, value |-> Undefined, elementDefinition |-> Get(r.defs, "element"), log |-> AddLog(log, r.log)]
    ELSE mapElements(i + 1, elems, Append(mapped, Get(r.clean, "element")), Get(r.defs, "element"),
                     prefix, isVerbose, isDebug, AddLog(log, r.log))

\* newOc is the outcome of the constructor for the i-th element
elementCheck(newOc, i, elems, mapped, elementDefinition, prefix, isVerbose, isDebug, log) ==
    IF ~newOc.ok
    THEN [ok |-> FALSE, err |-> newOc.err, value |-> Undefined, elementDefinition |-> elementDefinition, log |-> AddLog(log, newOc.log)]
    ELSE elementChecked(checkerGetCleanOptions(newOc.this, Obj1("element", elems[i])),
                        i, elems, mapped, prefix, isVerbose, isDebug, AddLog(log, newOc.log))

mapElements(i, elems, mapped, elementDefinition, prefix, isVerbose, isDebug, log) ==
    IF i > Len(elems)
    THEN [ok |-> TRUE, err |-> NoError, value |-> Arr(mapped), elementDefinition |-> elementDefinition, log |-> log]
    ELSE elementCheck(constructor(SubCheckerOptions(Obj1("element", elementDefinition),
                                                    prefix \o " : element " \o ToString(i - 1), isVerbose, isDebug),
                                  Null, Bool(FALSE)),
                      i, elems, mapped, elementDefinition, prefix, isVerbose, isDebug, log)

\* src lines 357-381: m is the outcome of the map over the elements, tooLong
\* the outcome of the maxLength check before it
elementsChecked(m, def, tooLong, tooLongMessage) ==
    IF ~m.ok THEN CheckFail(ErrorToString(m.err), Put(def, "elementDefinition", m.elementDefinition), m.log)
    ELSE IF tooLong THEN CheckFail(tooLongMessage, Put(def, "elementDefinition", m.elementDefinition), m.log)
    ELSE CheckClean(m.value, Put(def, "elementDefinition", m.elementDefinition), m.log)

\* a mutation of aboveMax: the upper bound is exclusive
aboveMaxExclusive(value, max) == max[1] # "undefined" /\ ~LessThan(value, max)

\* src lines 248-249 and 254-255: the value is outside a bound the definition gives
belowMin(value, min) == min[1] # "undefined" /\ LessThan(value, min)
aboveMax(value, max) == max[1] # "undefined" /\ GreaterThan(value, max)

\* a mutation of unrecognizedType: an unrecognized type is a failed check
unrecognizedTypeAsCheckFail(def, optionName, context, isVerbose) ==
    CheckFail("Unrecognized type '" \o Show(Get(def, "type")) \o "' in the definition of '" \o optionName \o "'", def, NoLog)

\* src lines 388-389: the default branch of the switch
unrecognizedType(def, optionName, context, isVerbose) ==
    CheckThrown(Error(_throwErrorMessage("Unrecognized type '" \o Show(Get(def, "type")) \o "' in the definition of '" \o optionName \o "'", context)),
                def, _throwErrorLog(isVerbose))

\* src lines 237-390: the switch on the normalized type
typeCheck(definitionType, value, def, optionName, context, isVerbose, isDebug) ==
    CASE definitionType \in {"function", "boolean"} ->
            IF TypeOf(value) # definitionType
            THEN CheckFail(optionName \o " should be a " \o Show(Get(def, "type")) \o ", " \o sPrettyPrint(Str(TypeOf(value))) \o " given", def, NoLog)
            ELSE CheckPass(def, NoLog)
      [] definitionType = "number" ->
            IF TypeOf(value) = "number"
            THEN LET min == Get(def, "min")
                     max == Get(def, "max")
                 IN  IF aboveMax(value, max)
                     THEN CheckFail("Number '" \o optionName \o "' should be equal to or lesser than " \o Show(max) \o ", " \o Show(value) \o " given", def, NoLog)
                     ELSE IF belowMin(value, min)
                     THEN CheckFail("Number '" \o optionName \o "' should be equal to or greater than " \o Show(min) \o ", " \o Show(value) \o " given", def, NoLog)
                     ELSE CheckPass(def, NoLog)
            ELSE CheckFail(optionName \o " should be a number, " \o sPrettyPrint(Str(TypeOf(value))) \o " given", def, NoLog)
      [] definitionType = "NonEmptyString" ->
            IF TypeOf(value) # "string" \/ value[2] = ""
            THEN FailPrinting(optionName \o " should be a non-empty string, ", value, " given", def)
            ELSE CheckPass(def, NoLog)
      [] definitionType = "NumberGreaterThanZero" ->
            IF TypeOf(value) # "number" \/ LessOrEqual(value, Num(0))
            THEN FailPrinting(optionName \o " should be a number greater than zero, ", value, " given", def)
            ELSE CheckPass(def, NoLog)
      [] definitionType = "NonZeroNumber" ->
            IF TypeOf(value) # "number" \/ value = Num(0)
            THEN FailPrinting(optionName \o " should be a number not equal to zero, ", value, " given", def)
            ELSE CheckPass(def, NoLog)
      [] definitionType = "string" ->
            IF TypeOf(value) # "string"
            THEN CheckFail(optionName \o " should be a string, " \o sPrettyPrint(Str(TypeOf(value))) \o " given", def, NoLog)
            ELSE LET minLength == Get(def, "minLength")
                     maxLength == Get(def, "maxLength")
                     tooShort == minLength[1] # "undefined" /\ Len(value[2]) < minLength[2]
                     tooLong == maxLength[1] # "undefined" /\ Len(value[2]) > maxLength[2]
                 IN  IF tooLong
                     THEN CheckFail("String '" \o optionName \o "' should not have more than " \o Show(maxLength) \o " character(s), it has " \o ToString(Len(value[2])), def, NoLog)
                     ELSE IF tooShort
                     THEN CheckFail("String '" \o optionName \o "' should be at least " \o Show(minLength) \o " characters(s) long, it has " \o ToString(Len(value[2])), def, NoLog)
                     ELSE CheckPass(def, NoLog)
      [] definitionType = "object" ->
            IF TypeOf(value) # "object"
            THEN CheckFail(optionName \o " must be an object, " \o sPrettyPrint(Str(TypeOf(value))) \o " given", def, NoLog)
            ELSE IF Get(def, "objectClass")[1] # "undefined" /\ ~InstanceOf(value, Get(def, "objectClass"))
            THEN IF value[1] = "null"
                 THEN CheckThrown(TypeError("null (reading 'constructor')"), def, NoLog)
                 ELSE CheckFail(optionName \o " must be an object of class " \o Get(def, "objectClass")[2] \o ", "
                                \o ConstructorName(value) \o " given, will assign default", def, NoLog)
            ELSE IF Get(def, "objectDefinition")[1] # "undefined"
            THEN checkObjectDefinition(value, def, optionName, context, isVerbose, isDebug)
            ELSE CheckPass(def, NoLog)
      [] definitionType = "array" ->
            IF ~IsArray(value)
            THEN CheckFail(optionName \o " must be an array, " \o sPrettyPrint(Str(TypeOf(value))) \o " given", def, NoLog)
            ELSE LET minLength == Get(def, "minLength")
                     maxLength == Get(def, "maxLength")
                     length == Len(value[2])
                     tooLong == maxLength[1] # "undefined" /\ length > maxLength[2]
                     tooLongMessage == "Array '" \o optionName \o "' should not have more than " \o Show(maxLength) \o " element(s), it has " \o ToString(length)
                 IN  IF minLength[1] # "undefined" /\ length < minLength[2]
                     THEN CheckFail("Array '" \o optionName \o "' should have at least " \o Show(minLength) \o " element(s), it has " \o ToString(length), def, NoLog)
                     ELSE IF Get(def, "elementDefinition")[1] # "undefined"
                     THEN elementsChecked(mapElements(1, value[2], <<>>, Get(def, "elementDefinition"), context \o " : " \o optionName,
                                                      isVerbose, isDebug, NoLog),
                                          def, tooLong, tooLongMessage)
                     ELSE IF tooLong THEN CheckFail(tooLongMessage, def, NoLog)
                     ELSE CheckPass(def, NoLog)
      [] definitionType = "custom" -> CheckPass(def, NoLog)
      [] OTHER -> unrecognizedType(def, optionName, context, isVerbose)

\* src lines 393-424: the custom check and the resolution, for a value whose
\* type check came back as tc; before is what the pass logged before the switch
resolve(tc, before, value, optionName, context, isVerbose, isDebug, isStrictDefault) ==
    LET def == tc.def
        log == AddLog(before, tc.log)
        customCheck == Get(def, "customCheck")
        customFails == ~tc.checkFail /\ customCheck[1] # "undefined" /\ ~Truthy(Apply(customCheck, value))
        checkFail == tc.checkFail \/ customFails
        checkFailMessage ==
            IF customFails
            THEN optionName \o " must be " \o Show(Get(def, "customCheckDescription")) \o ", " \o sPrettyPrint(value) \o " given"
            ELSE tc.checkFailMessage
        optionStrictDefault ==
            IF Get(def, "strictDefault")[1] # "undefined" THEN Truthy(Get(def, "strictDefault")) ELSE isStrictDefault
        transformFunction == Get(def, "transformFunction")
        cleanValue == IF tc.cleanValueAssigned THEN tc.value ELSE value
    IN  IF tc.thrown
        THEN Thrown(tc.err, def, log)
        ELSE IF customFails /\ sPrettyPrintThrows(value)
        THEN Thrown(TypeError("null (reading 'constructor')"), def, log)
        ELSE IF checkFail
        THEN IF optionStrictDefault \/ Get(def, "default")[1] = "undefined"
             THEN _throwError(checkFailMessage, context, isVerbose, def, log)
             ELSE Assigned(Get(def, "default"), def, AddLog(log, IF isVerbose THEN Lines(0, 1, 0) ELSE NoLog))
        ELSE IF transformFunction[1] # "undefined" /\ TypeOf(transformFunction) = "function"
        THEN IF Apply(transformFunction, cleanValue)[1] = "undefined"
             THEN _throwError("Transform function returned undefined value for option " \o optionName, context, isVerbose, def,
                              AddLog(log, DebugLog(isDebug, 1)))
             ELSE Assigned(Apply(transformFunction, cleanValue), def, AddLog(log, DebugLog(isDebug, 1)))
        ELSE Assigned(cleanValue, def, log)

\* a mutation of absentOption: the transform function is applied to the default
absentOptionTransformed(optionDefinition, optionName, context, isVerbose, isDebug, entryLog) ==
    IF Truthy(Get(optionDefinition, "required"))
    THEN _throwError("Required option '" \o optionName \o "' not found", context, isVerbose, optionDefinition, entryLog)
    ELSE IF Get(optionDefinition, "default")[1] = "undefined"
    THEN _throwError("No default defined for option '" \o optionName \o "'", context, isVerbose, optionDefinition, entryLog)
    ELSE IF TypeOf(Get(optionDefinition, "transformFunction")) = "function"
    THEN Assigned(Apply(Get(optionDefinition, "transformFunction"), Get(optionDefinition, "default")),
                  optionDefinition, AddLog(entryLog, DebugLog(isDebug, 1)))
    ELSE Assigned(Get(optionDefinition, "default"), optionDefinition, AddLog(entryLog, DebugLog(isDebug, 1)))

\* a mutation of absentOption: a default is used before `required` is looked at
absentOptionDefaultFirst(optionDefinition, optionName, context, isVerbose, isDebug, entryLog) ==
    IF Get(optionDefinition, "default")[1] # "undefined"
    THEN Assigned(Get(optionDefinition, "default"), optionDefinition, AddLog(entryLog, DebugLog(isDebug, 1)))
    ELSE IF Truthy(Get(optionDefinition, "required"))
    THEN _throwError("Required option '" \o optionName \o "' not found", context, isVerbose, optionDefinition, entryLog)
    ELSE _throwError("No default defined for option '" \o optionName \o "'", context, isVerbose, optionDefinition, entryLog)

\* a mutation of absentOption: in verbose mode a default is not assigned
absentOptionVerboseFatal(optionDefinition, optionName, context, isVerbose, isDebug, entryLog) ==
    IF Truthy(Get(optionDefinition, "required"))
    THEN _throwError("Required option '" \o optionName \o "' not found", context, isVerbose, optionDefinition, entryLog)
    ELSE IF Get(optionDefinition, "default")[1] = "undefined" \/ isVerbose
    THEN _throwError("No default defined for option '" \o optionName \o "'", context, isVerbose, optionDefinition, entryLog)
    ELSE Assigned(Get(optionDefinition, "default"), optionDefinition, AddLog(entryLog, DebugLog(isDebug, 1)))

\* src lines 198-209: optionName is not in optionsObject
absentOption(optionDefinition, optionName, context, isVerbose, isDebug, entryLog) ==
    IF Truthy(Get(optionDefinition, "required"))
    THEN _throwError("Required option '" \o optionName \o "' not found", context, isVerbose, optionDefinition, entryLog)
    ELSE IF Get(optionDefinition, "default")[1] = "undefined"
    THEN _throwError("No default defined for option '" \o optionName \o "'", context, isVerbose, optionDefinition, entryLog)
    ELSE Assigned(Get(optionDefinition, "default"), optionDefinition, AddLog(entryLog, DebugLog(isDebug, 1)))

\* a mutation of expandNonEmptyString: a previous maxLength stays
expandKeepingMaxLength(optionDefinition) ==
    Put(Put(optionDefinition, "type", Str("string")), "minLength", Num(1))

\* a mutation of expandNonEmptyString: the type left in the definition is 'number'
expandAsNumber(optionDefinition) ==
    Put(Put(Put(optionDefinition, "type", Str("number")), "minLength", Num(1)), "maxLength", Undefined)

\* src lines 224-229: the NonEmptyString alias is expanded in the definition
expandNonEmptyString(optionDefinition) ==
    Put(Put(Put(optionDefinition, "type", Str("string")), "minLength", Num(1)), "maxLength", Undefined)

\* src lines 192-425: the body of the loop, for one option
checkOption(optionsObject, optionDefinition, optionName, context, isVerbose, isDebug, isStrictDefault) ==
    LET value == Get(optionsObject, optionName)
        type == Get(optionDefinition, "type")
        entryLog == DebugLog(isDebug, 5)
    IN  IF optionsObject[1] \in {"null", "undefined"}
        THEN Thrown(TypeError(optionsObject[1] \o " (reading '" \o optionName \o "')"), optionDefinition, DebugLog(isDebug, 4))
        ELSE IF optionDefinition[1] \in {"null", "undefined"}
        THEN Thrown(TypeError(optionDefinition[1] \o " (reading '" \o (IF value[1] = "undefined" THEN "required" ELSE "type") \o "')"),
                    optionDefinition, entryLog)
        ELSE IF value[1] = "undefined"
        THEN absentOption(optionDefinition, optionName, context, isVerbose, isDebug, entryLog)
        ELSE IF type[1] = "undefined"
        THEN NotAssigned(optionDefinition, entryLog)
        ELSE IF TypeOf(type) # "string" \/ type[2] = ""
        THEN IF sPrettyPrintThrows(type)
             THEN Thrown(TypeError("null (reading 'constructor')"), optionDefinition, entryLog)
             ELSE _throwError("Invalid type in definition for " \o optionName \o ", need a non-empty string, " \o sPrettyPrint(type) \o " given",
                              context, isVerbose, optionDefinition, entryLog)
        ELSE LET normalized == _normalizeTypeString(type[2])
                 definitionType == IF normalized = "NonEmptyString" THEN "string" ELSE normalized
                 def == IF normalized = "NonEmptyString"
                        THEN expandNonEmptyString(optionDefinition)
                        ELSE optionDefinition
             IN  resolve(typeCheck(definitionType, value, def, optionName, context, isVerbose, isDebug),
                             AddLog(entryLog, DebugLog(isDebug, 1)), value, optionName, context, isVerbose, isDebug, isStrictDefault)

\* src lines 187-427: the for-in loop over the definition's keys, from the
\* i-th key on
RECURSIVE cleanLoop(_, _, _, _, _, _, _, _, _, _)

\* a mutation of loopStep: without strict-default only an exception of the
\* pass for the first key ends the loop
loopStepFirstOnly(r, i, names, cleanOptions, optionsObject, defs, context, isVerbose, isDebug, isStrictDefault, log) ==
    IF r.thrown /\ (i = 1 \/ isStrictDefault)
    THEN [ok |-> FALSE, clean |-> Undefined, err |-> r.err, defs |-> Put(defs, names[i], r.def), log |-> AddLog(log, r.log)]
    ELSE cleanLoop(i + 1, names, IF r.assigned THEN Put(cleanOptions, names[i], r.value) ELSE cleanOptions,
                   optionsObject, Put(defs, names[i], r.def), context, isVerbose, isDebug, isStrictDefault, AddLog(log, r.log))

\* r is what the pass for the i-th key handed back
loopStep(r, i, names, cleanOptions, optionsObject, defs, context, isVerbose, isDebug, isStrictDefault, log) ==
    IF r.thrown
    THEN [ok |-> FALSE, clean |-> Undefined, err |-> r.err, defs |-> Put(defs, names[i], r.def), log |-> AddLog(log, r.log)]
    ELSE cleanLoop(i + 1, names, IF r.assigned THEN Put(cleanOptions, names[i], r.value) ELSE cleanOptions,
                   optionsObject, Put(defs, names[i], r.def), context, isVerbose, isDebug, isStrictDefault, AddLog(log, r.log))

cleanLoop(i, names, cleanOptions, optionsObject, defs, context, isVerbose, isDebug, isStrictDefault, log) ==
    IF i > Len(names)
    THEN [ok |-> TRUE, clean |-> cleanOptions, err |-> NoError, defs |-> defs, log |-> log]
    ELSE loopStep(checkOption(optionsObject, Get(defs, names[i]), names[i], context, isVerbose, isDebug, isStrictDefault),
                  i, names, cleanOptions, optionsObject, defs, context, isVerbose, isDebug, isStrictDefault, log)

\* a mutation of _getCleanOptions: cleanOptions starts as a copy of the raw
\* object instead of {}
_getCleanOptionsFromCopy(optionsObject, defs, context, isVerbose, isDebug, isStrictDefault) ==
    cleanLoop(1, Keys(defs), IF optionsObject[1] = "object" THEN optionsObject ELSE EmptyObject,
              optionsObject, defs, context, isVerbose, isDebug, isStrictDefault, DebugLog(isDebug, 1))

_getCleanOptions(optionsObject, defs, context, isVerbose, isDebug, isStrictDefault) ==
    cleanLoop(1, Keys(defs), EmptyObject, optionsObject, defs, context, isVerbose, isDebug, isStrictDefault, DebugLog(isDebug, 1))

\* a mutation of setDebugFields: setDebug(false) turns verbose off as well
setDebugFieldsBoth(this, flag) ==
    IF flag
    THEN [this EXCEPT !.debug = TRUE, !.verbose = TRUE]
    ELSE [this EXCEPT !.debug = FALSE, !.verbose = FALSE]

\* src lines 121-128: the fields setDebug leaves, from the fields before it
setDebugFields(this, flag) ==
    IF flag
    THEN [this EXCEPT !.debug = TRUE, !.verbose = TRUE]
    ELSE [this EXCEPT !.debug = FALSE]

\* src lines 112-118: the checker built from the outcome r of checking the
\* constructor's argument
constructed(r, deprecation) ==
    IF ~r.ok
    THEN [ok |-> FALSE, err |-> r.err, this |-> NoChecker, log |-> AddLog(deprecation, r.log)]
    ELSE [ok |-> TRUE, err |-> NoError,
          this |-> setDebugFields([optionsDefinition |-> Get(r.clean, "optionsDefinition"),
                                   contextStr |-> Get(r.clean, "context")[2],
                                   verbose |-> Get(r.clean, "verbose")[2],
                                   strictDefault |-> Get(r.clean, "strictDefault")[2],
                                   debug |-> FALSE],
                                  Get(r.clean, "debug")[2]),
          log |-> AddLog(deprecation, r.log)]

\* src lines 92-119, with the default parameters contextStr = null and
\* verbose = false supplied by the caller
constructor(constructorOptions, contextArg, verboseArg) ==
    LET legacy == contextArg[1] # "null"
        constructorOptionsObject ==
            IF legacy
            THEN Obj("Object", <<"optionsDefinition", "context", "verbose">>,
                     [k \in {"optionsDefinition", "context", "verbose"} |->
                        CASE k = "optionsDefinition" -> constructorOptions
                          [] k = "context" -> contextArg
                          [] OTHER -> verboseArg])
            ELSE constructorOptions
    IN  constructed(_getCleanOptions(constructorOptionsObject, checkerOptionsDefinition,
                                     (IF legacy THEN Show(contextArg) ELSE "OptionsChecker") \o " constructor",
                                     FALSE, FALSE, TRUE),
                    IF legacy THEN Lines(0, 1, 0) ELSE NoLog)

----------------------------------------------------------------------------
(* The schemas, configurations and raw objects the model draws from *)

\* numbers range over -1 .. MaxNum, strings have up to MaxStrLen characters
MaxNum == 2
MaxStrLen == 2

\* the fields of an option definition, in the order the literals list them
DefFields == <<"type", "required", "default", "strictDefault", "min", "max", "minLength", "maxLength",
               "objectClass", "objectDefinition", "elementDefinition",
               "customCheck", "customCheckDescription", "transformFunction">>

\* the object literal with the properties of the record map
Literal(order, map) == Obj("Object", SelectSeq(order, LAMBDA k : k \in DOMAIN map), map)
DefOf(map) == Literal(DefFields, map)

Merge(f, g) == [k \in DOMAIN f \cup DOMAIN g |-> IF k \in DOMAIN g THEN g[k] ELSE f[k]]
NoFields == [k \in {} |-> Undefined]

Strings == {s \in {"", "a", "ab", "abc", "abcd"} : Len(s) <= MaxStrLen}
Numbers == {Num(n) : n \in -1..MaxNum}

\* a nested schema, as the test "should deal with object classes" has it
NestedSchema ==
    Literal(<<"name", "age">>,
            [name |-> DefOf([type |-> Str("NonEmptyString"), required |-> Bool(TRUE)]),
             age |-> DefOf([type |-> Str("number"), default |-> Num(0)])])

TypeParts ==
    { NoFields,
      [type |-> Str("number")],
      [type |-> Str("number"), min |-> Num(0), max |-> Num(1)],
      [type |-> Str("string"), minLength |-> Num(1), maxLength |-> Num(1)],
      [type |-> Str("NonEmptyString"), maxLength |-> Num(1)],
      [type |-> Str("Bool")],
      [type |-> Str("function")],
      [type |-> Str("NumberGreaterThanZero")],
      [type |-> Str("NonZeroNumber")],
      [type |-> Str("object"), objectClass |-> Fn("Date")],
      [type |-> Str("object"), objectDefinition |-> NestedSchema],
      [type |-> Str("Array"), minLength |-> Num(1), maxLength |-> Num(1)],
      [type |-> Str("array"), elementDefinition |-> DefOf([type |-> Str("number"), default |-> Num(0)])],
      [type |-> Str("array"), minLength |-> Num(1), maxLength |-> Num(2), elementDefinition |-> DefOf([type |-> Str("number")])],
      [type |-> Str("array"), elementDefinition |-> DefOf([type |-> Str("number"), default |-> Num(0), strictDefault |-> Bool(TRUE)])],
      [type |-> Str("custom")],
      [type |-> Str("someBadType")],
      [type |-> Str("")],
      [type |-> Num(5)] }

RequiredParts == {NoFields, [required |-> Bool(TRUE)]}
DefaultParts == {NoFields, [default |-> Str("d")]}
StrictParts == {NoFields, [strictDefault |-> Bool(TRUE)], [strictDefault |-> Bool(FALSE)]}
CheckParts == {NoFields, [customCheck |-> Fn("isPositive"), customCheckDescription |-> Str("positive")]}
TransformParts == {NoFields, [transformFunction |-> Fn("wrap")], [transformFunction |-> Fn("toUndefined")]}

\* the definitions of the single-option schemas: every type with every
\* required/default/strictDefault, and every hook on the types a hook is
\* used with
Definitions ==
    { DefOf(Merge(Merge(t, r), Merge(d, s))) :
        t \in TypeParts, r \in RequiredParts, d \in DefaultParts, s \in StrictParts }
    \cup
    { DefOf(Merge(Merge(Merge(t, d), s), Merge(c, f))) :
        t \in {NoFields, [type |-> Str("number")], [type |-> Str("custom")]},
        d \in DefaultParts, s \in StrictParts, c \in CheckParts, f \in TransformParts }

\* the definitions of the two-option schemas
PairDefinitions ==
    { DefOf([required |-> Bool(TRUE), default |-> Str("d")]),
      DefOf([default |-> Str("d")]),
      DefOf([type |-> Str("number"), min |-> Num(0), default |-> Num(1)]),
      DefOf([type |-> Str("NonEmptyString")]) }

Schemas ==
    { Obj1("option1", d) : d \in Definitions }
    \cup { Obj2("option1", d1, "option2", d2) : d1 \in PairDefinitions, d2 \in PairDefinitions }

\* the values a raw object gives an option
Values ==
    Numbers \cup {Str(s) : s \in Strings}
    \cup { NaN, Null, Bool(TRUE), Fn("f"), EmptyObject, Obj("Date", <<>>, <<>>),
           Obj1("name", Str("a")), Obj2("name", Str("a"), "age", Str("x")), Obj2("name", Str("a"), "unknown", Num(1)),
           Arr(<<>>), Arr(<<Num(1)>>), Arr(<<Str("a")>>), Arr(<<Num(1), Num(2)>>), Arr(<<Num(1), Str("a")>>),
           Arr(<<Num(1), Num(2), Num(1)>>) }

PairValues == {Num(-1), Num(1), Str("")}

RawKeys == <<"option1", "option2", "extra">>

\* the raw objects a checker with the schema defs is called with: every
\* declared option absent or present, with or without an undeclared key
RawObjects(defs) ==
    LET declared == SeqRange(Keys(defs))
        values == IF Len(Keys(defs)) = 1 THEN Values ELSE PairValues
    IN  { Literal(RawKeys, Merge(m, x)) :
            m \in UNION { [ks -> values] : ks \in SUBSET declared },
            x \in {NoFields, [extra |-> Str("x")]} }

\* the argument of the constructor
Configurations ==
    { Literal(<<"optionsDefinition", "context", "strictDefault", "verbose", "debug">>,
              Merge(Merge([optionsDefinition |-> defs, context |-> Str("ctx")], s), Merge(v, d))) :
        defs \in Schemas,
        s \in {NoFields, [strictDefault |-> Bool(TRUE)]},
        v \in {NoFields, [verbose |-> Bool(TRUE)]},
        d \in {NoFields, [debug |-> Bool(TRUE)]} }

\* arguments the constructor refuses, or should refuse: a configuration
\* without optionsDefinition or context, or with one that is not of the type
\* the meta-schema asks for, around a schema that is in order
PlainSchema == Obj1("option1", DefOf([default |-> Str("d")]))

BadConfigurations ==
    { Literal(<<"optionsDefinition", "context", "verbose">>, Merge(o, Merge(c, v))) :
        o \in {NoFields, [optionsDefinition |-> PlainSchema], [optionsDefinition |-> Num(1)],
               [optionsDefinition |-> Str("a")], [optionsDefinition |-> Null]},
        c \in {NoFields, [context |-> Str("ctx")], [context |-> Str("")], [context |-> Num(1)], [context |-> Null]},
        v \in {NoFields, [verbose |-> Bool(TRUE)]} }
    \ Configurations

\* the second and third argument of the legacy constructor
LegacyContexts == {Str("ctx"), Str(""), Num(1)}

----------------------------------------------------------------------------
(* The checker as a state machine *)

NoCall == [op |-> "none", arg |-> Undefined, ok |-> TRUE, clean |-> Undefined, err |-> NoError, log |-> NoLog]

Constructed == optionsDefinition[1] # "undefined"

\* the checker is constructed and no call is in progress
Idle == Constructed /\ call.op = "none"

\* the fields and the outcome c of new OptionsChecker(config)
Construct(config, c) ==
    /\ optionsDefinition = c.this.optionsDefinition
    /\ contextStr = c.this.contextStr
    /\ verbose = c.this.verbose
    /\ debug = c.this.debug
    /\ strictDefault = c.this.strictDefault
    /\ call = [op |-> "constructor", arg |-> config, ok |-> c.ok, clean |-> Undefined, err |-> c.err, log |-> c.log]

\* new OptionsChecker(config), or the legacy
\* new OptionsChecker(defs, context, verbose), whose argument list the call
\* is recorded with
Init ==
    \/ \E config \in Configurations \cup BadConfigurations : Construct(config, constructor(config, Null, Bool(FALSE)))
    \/ \E defs \in Schemas \cup {Num(1), Null}, contextArg \in LegacyContexts, verboseArg \in BOOLEAN :
            /\ defs \in Schemas \/ contextArg = Str("ctx")
            /\ defs = PlainSchema \/ contextArg = Str("ctx")
            /\ Construct(Arr(<<defs, contextArg, Bool(verboseArg)>>), constructor(defs, contextArg, Bool(verboseArg)))

\* the outcome of this.getCleanOptions(optionsObject)
getCleanOptions(optionsObject) ==
    _getCleanOptions(optionsObject, optionsDefinition, contextStr, verbose, debug, strictDefault)

\* the effect of a call `op` with the argument raw and the outcome r
Called(op, raw, r) ==
    /\ optionsDefinition' = r.defs
    /\ call' = [op |-> op, arg |-> raw, ok |-> r.ok, clean |-> r.clean, err |-> r.err, log |-> r.log]
    /\ UNCHANGED <<contextStr, verbose, debug, strictDefault>>

\* oc.getCleanOptions(raw), called as `op`
Call(op, raw) == Called(op, raw, getCleanOptions(raw))

GetCleanOptions == Idle /\ \E raw \in RawObjects(optionsDefinition) : Call("getCleanOptions", raw)

\* oc.getDefaults()
GetDefaults == Idle /\ Call("getDefaults", EmptyObject)

\* oc.getCleanOptions(c) for the clean object c the last call returned
CleanAgain ==
    /\ call.op \in {"getCleanOptions", "getDefaults"}
    /\ call.ok
    /\ Call("cleanAgain", call.clean)

\* oc.setDebug(flag)
SetDebug ==
    \E flag \in BOOLEAN :
        LET this == setDebugFields([optionsDefinition |-> optionsDefinition, contextStr |-> contextStr,
                                    verbose |-> verbose, strictDefault |-> strictDefault, debug |-> debug], flag)
        IN  /\ Idle
            /\ debug' = this.debug
            /\ verbose' = this.verbose
            /\ call' = [NoCall EXCEPT !.op = "setDebug", !.arg = Bool(flag)]
            /\ UNCHANGED <<optionsDefinition, contextStr, strictDefault>>

\* the caller takes the outcome of the call: the returned object, or the
\* exception
Return ==
    /\ Constructed
    /\ call.op # "none"
    /\ call' = NoCall
    /\ UNCHANGED <<optionsDefinition, contextStr, verbose, debug, strictDefault>>

Next == GetCleanOptions \/ GetDefaults \/ CleanAgain \/ SetDebug \/ Return

Spec == Init /\ [][Next]_vars

----------------------------------------------------------------------------
(* What the claims speak of *)

\* the last call was a getCleanOptions call (getDefaults is getCleanOptions({}))
CleanCall == call.op \in {"getCleanOptions", "getDefaults", "cleanAgain"}

Declared == SeqRange(Keys(optionsDefinition))
DefinitionOf(k) == Get(optionsDefinition, k)
\* the raw value the last call had for option k
Given(k) == Get(call.arg, k)
Present(k) == Given(k)[1] # "undefined"
HasDefault(k) == Get(DefinitionOf(k), "default")[1] # "undefined"
IsRequired(k) == Get(DefinitionOf(k), "required") = Bool(TRUE)
\* the properties of a returned object
Properties(o) == o[4]
Returned(k) == k \in DOMAIN Properties(call.clean)

----------------------------------------------------------------------------
(* C1 *)

AllDefaulted == \A k \in Declared : HasDefault(k) /\ ~IsRequired(k)

\* C1: when every option of the schema has a default and none is required,
\* getDefaults() succeeds and returns exactly the declared keys, each with
\* its definition's default as it stands (not type-checked, not custom-checked,
\* not transformed).
C1_GetDefaultsReturnsDefaults ==
    (call.op = "getDefaults" /\ AllDefaulted) =>
        /\ call.ok
        /\ DOMAIN Properties(call.clean) = Declared
        /\ \A k \in Declared : Properties(call.clean)[k] = Get(DefinitionOf(k), "default")

\* getDefaults() returned the default 'd' of an option of type number with a
\* customCheck and a transformFunction
C1_Witness ==
    /\ call.op = "getDefaults"
    /\ AllDefaulted
    /\ call.ok
    /\ Get(DefinitionOf("option1"), "type") = Str("number")
    /\ Get(DefinitionOf("option1"), "customCheck")[1] = "function"
    /\ Get(DefinitionOf("option1"), "transformFunction")[1] = "function"
    /\ Properties(call.clean)["option1"] = Str("d")

----------------------------------------------------------------------------
(* C2 *)

\* C2: a call whose raw object has no value for an option declared with
\* required = true raises, with or without a default in the definition and
\* whatever the other options are.
C2_MissingRequiredRaises ==
    (CleanCall /\ \E k \in Declared : IsRequired(k) /\ ~Present(k)) => ~call.ok

\* option2 is required, has a default and is absent, option1 is supplied, and
\* the call raised over option2
C2_Witness ==
    /\ call.op = "getCleanOptions"
    /\ Declared = {"option1", "option2"}
    /\ IsRequired("option2") /\ HasDefault("option2") /\ ~Present("option2")
    /\ ~IsRequired("option1") /\ Present("option1")
    /\ ~call.ok
    /\ call.err.message = "ctx : Required option 'option2' not found"

----------------------------------------------------------------------------
(* C3 *)

\* C3: the object a successful getCleanOptions call returns has exactly one
\* entry for each key the schema declares, also for an option that is present
\* in the raw object and whose definition has no type.
C3_ExactlyTheDeclaredKeys ==
    (CleanCall /\ call.ok) => DOMAIN Properties(call.clean) = Declared

----------------------------------------------------------------------------
(* C4 *)

\* the raw object without its undeclared keys
WithoutUndeclared(raw) ==
    Obj(raw[2], SelectSeq(raw[3], LAMBDA k : k \in Declared), [k \in DOMAIN raw[4] \cap Declared |-> raw[4][k]])

SameOutcome(r, c) == r.ok = c.ok /\ r.clean = c.clean /\ r.err = c.err

\* C4: a key of the raw object that the schema does not declare never shows
\* in the result, and the call's outcome (success or the error, and what the
\* declared keys are assigned) is that of the call without the undeclared keys.
C4_UndeclaredKeysDropped ==
    (call.op = "getCleanOptions") =>
        /\ call.ok => DOMAIN Properties(call.clean) \subseteq Declared
        /\ SameOutcome(getCleanOptions(WithoutUndeclared(call.arg)), call)

\* a successful call whose raw object had the undeclared key 'extra' beside
\* a declared one, and returned the declared one
C4_Witness ==
    /\ call.op = "getCleanOptions"
    /\ call.ok
    /\ "extra" \in DOMAIN Properties(call.arg)
    /\ Present("option1")
    /\ Returned("option1")

----------------------------------------------------------------------------
(* Validation failures, as the claims list them: a run-time type mismatch, *)
(* a numeric or length bound violation, an object-class mismatch, a falsy  *)
(* customCheck                                                             *)

HasType(def) == Get(def, "type")[1] # "undefined"
\* the type field is a non-empty string
HasTypeToken(def) == Get(def, "type")[1] = "string" /\ Get(def, "type")[2] # ""
TypeTag(def) == _normalizeTypeString(Get(def, "type")[2])
KnownTypes == {"boolean", "function", "number", "NonEmptyString", "NumberGreaterThanZero", "NonZeroNumber",
               "string", "object", "array", "custom"}
\* the definition has no schema authoring error in its type
WellTyped(def) == ~HasType(def) \/ (HasTypeToken(def) /\ TypeTag(def) \in KnownTypes)
Defined(def, field) == Get(def, field)[1] # "undefined"

TypeMismatch(def, v) ==
    /\ HasTypeToken(def)
    /\ CASE TypeTag(def) \in {"boolean", "function"} -> TypeOf(v) # TypeTag(def)
         [] TypeTag(def) \in {"number", "NumberGreaterThanZero", "NonZeroNumber"} -> TypeOf(v) # "number"
         [] TypeTag(def) \in {"string", "NonEmptyString"} -> TypeOf(v) # "string"
         [] TypeTag(def) = "object" -> TypeOf(v) # "object"
         [] TypeTag(def) = "array" -> ~IsArray(v)
         [] OTHER -> FALSE

BoundViolation(def, v) ==
    /\ HasTypeToken(def)
    /\ ~TypeMismatch(def, v)
    /\ CASE TypeTag(def) = "number" ->
                \/ Defined(def, "min") /\ LessThan(v, Get(def, "min"))
                \/ Defined(def, "max") /\ GreaterThan(v, Get(def, "max"))
         [] TypeTag(def) = "NumberGreaterThanZero" -> LessOrEqual(v, Num(0))
         [] TypeTag(def) = "NonZeroNumber" -> v = Num(0)
         [] TypeTag(def) = "NonEmptyString" -> Len(v[2]) < 1
         [] TypeTag(def) \in {"string", "array"} ->
                \/ Defined(def, "minLength") /\ Len(v[2]) < Get(def, "minLength")[2]
                \/ Defined(def, "maxLength") /\ Len(v[2]) > Get(def, "maxLength")[2]
         [] OTHER -> FALSE

ClassMismatch(def, v) ==
    /\ HasTypeToken(def)
    /\ TypeTag(def) = "object"
    /\ TypeOf(v) = "object"
    /\ Defined(def, "objectClass")
    /\ ~InstanceOf(v, Get(def, "objectClass"))

BuiltInCheckFails(def, v) == TypeMismatch(def, v) \/ BoundViolation(def, v) \/ ClassMismatch(def, v)

CustomCheckFails(def, v) ==
    /\ WellTyped(def)
    /\ ~BuiltInCheckFails(def, v)
    /\ Defined(def, "customCheck")
    /\ ~Truthy(Apply(Get(def, "customCheck"), v))

FailsValidation(def, v) == WellTyped(def) /\ (BuiltInCheckFails(def, v) \/ CustomCheckFails(def, v))

\* the value is checked against no nested schema
Flat(def) == ~Defined(def, "objectDefinition") /\ ~Defined(def, "elementDefinition")
\* the value passes every check of a definition without nested schemas
Accepted(def, v) == WellTyped(def) /\ Flat(def) /\ ~FailsValidation(def, v)

HasTransform(k) == TypeOf(Get(DefinitionOf(k), "transformFunction")) = "function"
Transformed(k, v) == Apply(Get(DefinitionOf(k), "transformFunction"), v)
Default(k) == Get(DefinitionOf(k), "default")

\* the option's own strictDefault when it is defined, the checker's otherwise
EffectiveStrictDefault(k) ==
    IF Defined(DefinitionOf(k), "strictDefault")
    THEN Get(DefinitionOf(k), "strictDefault") = Bool(TRUE)
    ELSE strictDefault

\* the last call supplied a value for k that fails validation
SuppliedInvalid(k) == Present(k) /\ FailsValidation(DefinitionOf(k), Given(k))

----------------------------------------------------------------------------
(* C5 *)

\* C5: a supplied value of an option whose definition has no type is accepted
\* unchanged: the result holds it under the option's key; customCheck still
\* applies to it (a falsy result is resolved as a validation failure, by the
\* default or by raising) and so does transformFunction.
C5_UntypedValueAccepted ==
    CleanCall =>
        \A k \in Declared :
            (DefinitionOf(k)[1] = "object" /\ ~HasType(DefinitionOf(k)) /\ Present(k)) =>
                IF CustomCheckFails(DefinitionOf(k), Given(k))
                THEN IF EffectiveStrictDefault(k) \/ ~HasDefault(k)
                     THEN ~call.ok
                     ELSE call.ok => Returned(k) /\ Properties(call.clean)[k] = Default(k)
                ELSE call.ok =>
                        /\ Returned(k)
                        /\ Properties(call.clean)[k] = (IF HasTransform(k) THEN Transformed(k, Given(k)) ELSE Given(k))

----------------------------------------------------------------------------
(* C6 *)

NoTransformFunction == \A k \in Declared : ~Defined(DefinitionOf(k), "transformFunction")

\* C6: for a schema without transformFunction, cleaning the clean object c of
\* a successful call again succeeds and returns an object equal to c, with
\* strictDefault false and with strictDefault true.
C6_Idempotent ==
    (call.op = "cleanAgain" /\ NoTransformFunction) =>
        /\ call.ok
        /\ Properties(call.clean) = Properties(call.arg)

----------------------------------------------------------------------------
(* C7 *)

\* C7: when a supplied value fails validation, the option has a default and
\* the effective strict-default is false, the call does not raise over that
\* option and the result holds the option's default.
C7_InvalidValueFallsBackToDefault ==
    CleanCall =>
        \A k \in Declared :
            (SuppliedInvalid(k) /\ HasDefault(k) /\ ~EffectiveStrictDefault(k)) =>
                /\ Declared = {k} => call.ok
                /\ call.ok => Returned(k) /\ Properties(call.clean)[k] = Default(k)

----------------------------------------------------------------------------
(* C8 *)

\* C8: for an option with neither required = true nor a default, the call
\* raises when the raw object has no value for it and when the supplied value
\* fails validation, whatever the strict-default setting.
C8_NoDefaultRaises ==
    (CleanCall /\ \E k \in Declared :
        /\ ~IsRequired(k) /\ ~HasDefault(k)
        /\ ~Present(k) \/ SuppliedInvalid(k))
    => ~call.ok

----------------------------------------------------------------------------
(* C9 *)

\* C9: when a supplied value fails validation and the option has a default,
\* the call raises iff the effective strict-default is true (the option's own
\* strictDefault when defined, else the checker's); an absent option gets its
\* default whatever the strict-default is.
C9_StrictDefault ==
    CleanCall =>
        \A k \in Declared :
            /\ (SuppliedInvalid(k) /\ HasDefault(k) /\ Declared = {k}) => (~call.ok <=> EffectiveStrictDefault(k))
            /\ (~Present(k) /\ HasDefault(k) /\ ~IsRequired(k) /\ call.ok) =>
                    Returned(k) /\ Properties(call.clean)[k] = Default(k)

----------------------------------------------------------------------------
(* C10 *)

\* C10: the transform function is applied exactly to the supplied values that
\* passed every check, the result being transformFunction(value); a default,
\* assigned for an absent option or after a failed validation, is not
\* transformed.
C10_TransformOnlyAcceptedValues ==
    (CleanCall /\ call.ok) =>
        \A k \in Declared :
            HasTransform(k) =>
                /\ (Present(k) /\ Accepted(DefinitionOf(k), Given(k))) =>
                        Returned(k) /\ Properties(call.clean)[k] = Transformed(k, Given(k))
                /\ (~Present(k) \/ SuppliedInvalid(k)) =>
                        Returned(k) /\ Properties(call.clean)[k] = Default(k)

----------------------------------------------------------------------------
(* C11 *)

\* C11: when the transform function returns undefined for a supplied value
\* that passed every check, the call raises; the default is not substituted
\* for the undefined result, with or without a default and whatever the
\* strict-default is.
C11_UndefinedTransformRaises ==
    CleanCall =>
        \A k \in Declared :
            (Present(k) /\ HasTransform(k) /\ Accepted(DefinitionOf(k), Given(k)) /\ Transformed(k, Given(k)) = Undefined) =>
                ~call.ok

----------------------------------------------------------------------------
(* C12 *)

CleanOps == {"getCleanOptions", "getDefaults", "cleanAgain"}

\* the object o without its property k
Remove(o, k) == Obj(o[2], SelectSeq(o[3], LAMBDA x : x # k), [x \in DOMAIN o[4] \ {k} |-> o[4][x]])

\* the schema with the default taken out of every definition that has
\* required = true
WithoutIgnoredDefaults(defs) ==
    IF defs[1] # "object" THEN defs
    ELSE Obj(defs[2], defs[3],
             [k \in DOMAIN defs[4] |->
                 IF Truthy(Get(defs[4][k], "required")) THEN Remove(defs[4][k], "default") ELSE defs[4][k]])

SameResult(r, c) == r.ok = c.ok /\ r.clean = c.clean

\* C12: the default of an option declared with required = true is ignored:
\* every call succeeds or fails, and returns, as the same call does on the
\* schema without that default, for an absent option and for a supplied value
\* that fails validation.
C12_RequiredIgnoresDefault ==
    [][call'.op \in CleanOps =>
        SameResult(_getCleanOptions(call'.arg, WithoutIgnoredDefaults(optionsDefinition), contextStr, verbose, debug, strictDefault),
                   call')]_vars

----------------------------------------------------------------------------
(* C13 *)

\* a >= b on numbers
GreaterOrEqual(a, b) == a[1] = "number" /\ b[1] = "number" /\ a[2] >= b[2]

\* k is an option of type 'number' without customCheck and transformFunction,
\* and the last call supplied a value of run-time type number for it
NumberSupplied(k) ==
    /\ HasTypeToken(DefinitionOf(k))
    /\ TypeTag(DefinitionOf(k)) = "number"
    /\ ~Defined(DefinitionOf(k), "customCheck")
    /\ ~Defined(DefinitionOf(k), "transformFunction")
    /\ Present(k)
    /\ TypeOf(Given(k)) = "number"

\* what the last call shows of the check of option k: when it passed, the
\* result holds `value`; when it failed, it is resolved by the default or by
\* raising
OptionOutcome(k, passed, value) ==
    IF passed
    THEN /\ Declared = {k} => call.ok
         /\ call.ok => Returned(k) /\ Properties(call.clean)[k] = value
    ELSE IF HasDefault(k) /\ ~EffectiveStrictDefault(k)
         THEN /\ Declared = {k} => call.ok
              /\ call.ok => Returned(k) /\ Properties(call.clean)[k] = Default(k)
         ELSE ~call.ok

\* a value that passed the type check is returned unchanged
TypeCheckOutcome(k, passed) == OptionOutcome(k, passed, Given(k))

\* C13, as stated: a value v of run-time type number passes the check of an
\* option of type 'number' iff (min is undefined or v >= min) and (max is
\* undefined or v <= max), and the accepted v is returned unchanged.
C13_PassesIffWithinBounds ==
    CleanCall =>
        \A k \in Declared :
            NumberSupplied(k) =>
                TypeCheckOutcome(k, /\ Defined(DefinitionOf(k), "min") => GreaterOrEqual(Given(k), Get(DefinitionOf(k), "min"))
                                    /\ Defined(DefinitionOf(k), "max") => LessOrEqual(Given(k), Get(DefinitionOf(k), "max")))

\* C13, amended: a value v of run-time type number fails the check of an
\* option of type 'number' iff (min is defined and v < min) or (max is defined
\* and v > max); so v = min and v = max pass, and so does NaN, for which both
\* comparisons are false; the accepted v is returned unchanged.
C13_FailsIffOutsideBounds ==
    CleanCall =>
        \A k \in Declared :
            NumberSupplied(k) =>
                TypeCheckOutcome(k, /\ Defined(DefinitionOf(k), "min") => ~LessThan(Given(k), Get(DefinitionOf(k), "min"))
                                    /\ Defined(DefinitionOf(k), "max") => ~GreaterThan(Given(k), Get(DefinitionOf(k), "max")))

\* the option has min 0 and max 1 and the call returned the supplied value 1
C13_Witness ==
    /\ call.op = "getCleanOptions"
    /\ NumberSupplied("option1")
    /\ Get(DefinitionOf("option1"), "min") = Num(0)
    /\ Get(DefinitionOf("option1"), "max") = Num(1)
    /\ Given("option1") = Num(1)
    /\ call.ok
    /\ Properties(call.clean)["option1"] = Num(1)

----------------------------------------------------------------------------
(* C14 *)

\* k is an option of type 'object' with an objectDefinition, without
\* objectClass, customCheck and transformFunction, and the last call supplied
\* a value of run-time type object for it
NestedObjectSupplied(k) ==
    /\ HasTypeToken(DefinitionOf(k))
    /\ TypeTag(DefinitionOf(k)) = "object"
    /\ Defined(DefinitionOf(k), "objectDefinition")
    /\ ~Defined(DefinitionOf(k), "objectClass")
    /\ ~Defined(DefinitionOf(k), "customCheck")
    /\ ~Defined(DefinitionOf(k), "transformFunction")
    /\ Present(k)
    /\ TypeOf(Given(k)) = "object"

\* cleaning the value v of an option with the definition def raises under a
\* checker whose strict-default is false: v is absent and there is nothing to
\* assign, or v fails validation and the default may not stand in
CleaningRaises(def, v) ==
    IF v[1] = "undefined"
    THEN Truthy(Get(def, "required")) \/ ~Defined(def, "default")
    ELSE FailsValidation(def, v) /\ (~Defined(def, "default") \/ Truthy(Get(def, "strictDefault")))

\* the clean value of v when cleaning does not raise
CleanValue(def, v) == IF v[1] # "undefined" /\ ~FailsValidation(def, v) THEN v ELSE Get(def, "default")

\* the clean object of the raw nested value v under the nested schema: one
\* entry for each key the nested schema declares, in its order
NestedClean(schema, v) ==
    Obj("Object", Keys(schema), [nk \in SeqRange(Keys(schema)) |-> CleanValue(Get(schema, nk), Get(v, nk))])

NestedRaises(schema, v) == \E nk \in SeqRange(Keys(schema)) : CleaningRaises(Get(schema, nk), Get(v, nk))

\* C14: the value assigned to an option of type 'object' with an
\* objectDefinition is the clean object of the raw nested value under that
\* definition: nested defaults are filled in, nested undeclared keys dropped,
\* nested required options enforced (the option fails when one is missing),
\* and the raw nested object is not copied as it is.
C14_NestedObjectCleaned ==
    CleanCall =>
        \A k \in Declared :
            NestedObjectSupplied(k) =>
                OptionOutcome(k, ~NestedRaises(Get(DefinitionOf(k), "objectDefinition"), Given(k)),
                              NestedClean(Get(DefinitionOf(k), "objectDefinition"), Given(k)))

\* the raw nested object {name: 'a', unknown: 1} came back as {name: 'a', age: 0}
C14_Witness ==
    /\ call.op = "getCleanOptions"
    /\ NestedObjectSupplied("option1")
    /\ Given("option1") = Obj2("name", Str("a"), "unknown", Num(1))
    /\ call.ok
    /\ Properties(call.clean)["option1"] = Obj2("name", Str("a"), "age", Num(0))

----------------------------------------------------------------------------
(* C15 *)

\* k is an option of type 'array' with an elementDefinition, without
\* customCheck and transformFunction, and the last call supplied a value for it
ElementsSupplied(k) ==
    /\ HasTypeToken(DefinitionOf(k))
    /\ TypeTag(DefinitionOf(k)) = "array"
    /\ Defined(DefinitionOf(k), "elementDefinition")
    /\ ~Defined(DefinitionOf(k), "customCheck")
    /\ ~Defined(DefinitionOf(k), "transformFunction")
    /\ Present(k)

\* the value is no array, is too short or too long, or has an element whose
\* cleaning raises
ArrayFails(def, v) ==
    IF ~IsArray(v) THEN TRUE
    ELSE \/ Defined(def, "minLength") /\ Len(v[2]) < Get(def, "minLength")[2]
         \/ Defined(def, "maxLength") /\ Len(v[2]) > Get(def, "maxLength")[2]
         \/ \E i \in 1..Len(v[2]) : CleaningRaises(Get(def, "elementDefinition"), v[2][i])

\* the array of the clean values of the elements, in their order
ElementsClean(def, v) ==
    IF ~IsArray(v) THEN Undefined
    ELSE Arr([i \in 1..Len(v[2]) |-> CleanValue(Get(def, "elementDefinition"), v[2][i])])

\* C15: an option of type 'array' with an elementDefinition fails for a value
\* that is no array, for a length below minLength or above maxLength, and for
\* an element whose cleaning against elementDefinition raises; otherwise the
\* value assigned is an array of the same length whose i-th entry is the clean
\* value of the i-th raw element.
C15_ArrayElementsCleaned ==
    CleanCall =>
        \A k \in Declared :
            ElementsSupplied(k) =>
                OptionOutcome(k, ~ArrayFails(DefinitionOf(k), Given(k)), ElementsClean(DefinitionOf(k), Given(k)))

\* the raw array [1, 'a'] came back as [1, 0], 0 being the element's default
C15_Witness ==
    /\ call.op = "getCleanOptions"
    /\ ElementsSupplied("option1")
    /\ Given("option1") = Arr(<<Num(1), Str("a")>>)
    /\ call.ok
    /\ Properties(call.clean)["option1"] = Arr(<<Num(1), Num(0)>>)

----------------------------------------------------------------------------
(* C16 *)

\* the message starts with '<context> : ' for the checker's context
HasContextPrefix(message) ==
    LET prefix == contextStr \o " : "
    IN  Len(message) >= Len(prefix) /\ SubSeq(message, 1, Len(prefix)) = prefix

\* the option k fails over the nested value the last call supplied: a nested
\* option of its objectDefinition, or an element of its array, raises
NestedFailure(k) ==
    \/ NestedObjectSupplied(k) /\ NestedRaises(Get(DefinitionOf(k), "objectDefinition"), Given(k))
    \/ /\ ElementsSupplied(k)
       /\ IsArray(Given(k))
       /\ ~(Defined(DefinitionOf(k), "minLength") /\ Len(Given(k)[2]) < Get(DefinitionOf(k), "minLength")[2])
       /\ \E i \in 1..Len(Given(k)[2]) : CleaningRaises(Get(DefinitionOf(k), "elementDefinition"), Given(k)[2][i])

\* the message of the error the sub-checker of option k raises over that
\* nested value, its context being '<context> : <option name>' (and
\* ' : element <i>' for an element)
NestedFailureMessage(k) ==
    IF TypeTag(DefinitionOf(k)) = "object"
    THEN _getCleanOptions(Given(k), Get(DefinitionOf(k), "objectDefinition"), contextStr \o " : " \o k,
                          verbose, debug, FALSE).err.message
    ELSE mapElements(1, Given(k)[2], <<>>, Get(DefinitionOf(k), "elementDefinition"), contextStr \o " : " \o k,
                     verbose, debug, NoLog).err.message

\* C16: the error a call raises has a message of the form
\* '<context> : <message>' with the checker's context, and when the failure
\* comes from a nested objectDefinition or elementDefinition it is the nested
\* failure's message as it stands, '<context> : <option name> : <message>'.
C16_ErrorMessageForm ==
    (CleanCall /\ ~call.ok) =>
        /\ HasContextPrefix(call.err.message)
        /\ \A k \in Declared :
                (Declared = {k} /\ NestedFailure(k)) => call.err.message = NestedFailureMessage(k)

----------------------------------------------------------------------------
(* C17 *)

\* the definition has a schema authoring error: its type is an unrecognized
\* token, or is not a non-empty string
AuthoringError(def) == ~WellTyped(def)

\* C17, as stated: when an option's definition has a schema authoring error,
\* getCleanOptions and getDefaults raise, with or without a default and
\* whatever the strict-default is.
C17_AuthoringErrorAlwaysRaises ==
    (CleanCall /\ \E k \in Declared : AuthoringError(DefinitionOf(k))) => ~call.ok

\* C17, amended: when the raw object has a value for an option whose
\* definition has a schema authoring error, the call raises, with or without
\* a default and whatever the strict-default is; the type of an absent option
\* is not looked at.
C17_AuthoringErrorRaisesWhenSupplied ==
    (CleanCall /\ \E k \in Declared : AuthoringError(DefinitionOf(k)) /\ Present(k)) => ~call.ok

\* a value was supplied for an option of the unrecognized type 'someBadType'
\* that has a default and no strict-default, and the call raised
C17_Witness ==
    /\ call.op = "getCleanOptions"
    /\ Get(DefinitionOf("option1"), "type") = Str("someBadType")
    /\ HasDefault("option1")
    /\ ~EffectiveStrictDefault("option1")
    /\ Present("option1")
    /\ ~call.ok
    /\ call.err.message = "ctx : Unrecognized type 'someBadType' in the definition of 'option1'"

----------------------------------------------------------------------------
(* C18 *)

\* C18: verbose and debug do not change the outcome of a call: a checker that
\* differs from this one only in verbose and debug raises the same error on
\* the same raw object, or returns an equal clean object, nested object and
\* array-element schemas included.
C18_VerboseDebugSameOutcome ==
    [][call'.op \in CleanOps =>
        \A isVerbose \in BOOLEAN, isDebug \in BOOLEAN :
            SameOutcome(_getCleanOptions(call'.arg, optionsDefinition, contextStr, isVerbose, isDebug, strictDefault), call')]_vars

\* a call of a verbose checker that fell back to a default over a nested
\* schema's failure, and wrote the warning
C18_Witness ==
    /\ call.op = "getCleanOptions"
    /\ verbose
    /\ NestedFailure("option1")
    /\ call.ok
    /\ call.log.warn > 0

----------------------------------------------------------------------------
(* C19 *)

\* C19: after construction and any sequence of setDebug calls, debug = true
\* implies verbose = true; setDebug(true) sets debug and verbose to true,
\* setDebug(false) sets debug to false and leaves verbose as it was, so verbose,
\* once true, is never reset to false.
C19_DebugImpliesVerbose ==
    /\ [](debug => verbose)
    /\ [][/\ verbose => verbose'
          /\ call'.op = "setDebug" =>
                IF call'.arg = Bool(TRUE)
                THEN debug' /\ verbose'
                ELSE ~debug' /\ verbose' = verbose]_vars

\* setDebug(false) on a checker constructed with debug: true left verbose on
C19_Witness ==
    /\ call.op = "setDebug"
    /\ call.arg = Bool(FALSE)
    /\ ~debug
    /\ verbose

----------------------------------------------------------------------------
(* C20 *)

\* C20: with verbose = false and debug = false nothing is written to the
\* console: not by the construction (the legacy constructor's deprecation
\* notice included), not by a getCleanOptions call (fallback warnings, error
\* logging).
C20_QuietUnlessVerbose ==
    ((call.op = "constructor" \/ CleanCall) /\ ~verbose /\ ~debug) => call.log = NoLog

----------------------------------------------------------------------------
(* C21 *)

\* the configuration a construction is given: the single argument, or the one
\* the three positional arguments of the legacy form stand for
ConfigurationOf(arg) ==
    IF IsArray(arg)
    THEN Literal(<<"optionsDefinition", "context", "verbose">>,
                 [optionsDefinition |-> arg[2][1], context |-> arg[2][2], verbose |-> arg[2][3]])
    ELSE arg

IsObject(v) == v[1] \in {"object", "array", "function"}
IsNonEmptyString(v) == v[1] = "string" /\ v[2] # ""
\* a flag of the configuration, false when omitted
Flag(cfg, name) == Defined(cfg, name) /\ Get(cfg, name) = Bool(TRUE)

\* what a construction with the configuration cfg comes to
ConstructionOutcome(cfg) ==
    IF ~IsObject(Get(cfg, "optionsDefinition")) \/ ~IsNonEmptyString(Get(cfg, "context"))
    THEN ~call.ok
    ELSE /\ call.ok
         /\ optionsDefinition = Get(cfg, "optionsDefinition")
         /\ contextStr = Get(cfg, "context")[2]
         /\ strictDefault = Flag(cfg, "strictDefault")
         /\ debug = Flag(cfg, "debug")
         /\ verbose = (Flag(cfg, "verbose") \/ Flag(cfg, "debug"))

\* C21: a construction raises when optionsDefinition is missing or is not an
\* object, or when context is missing or is not a non-empty string; otherwise
\* it succeeds, the checker has the given schema and context, and
\* strictDefault, verbose and debug are false when omitted (verbose being
\* turned on by debug); the legacy form with three positional arguments is
\* taken as the configuration {optionsDefinition, context, verbose}.
C21_ConstructionValidated ==
    call.op = "constructor" => ConstructionOutcome(ConfigurationOf(call.arg))

----------------------------------------------------------------------------
(* C22 *)

\* k is an option with a recognized type and a customCheck, without nested
\* schema and transformFunction, and the last call supplied a value for it
CustomCheckSupplied(k) ==
    /\ HasTypeToken(DefinitionOf(k))
    /\ TypeTag(DefinitionOf(k)) \in KnownTypes
    /\ Flat(DefinitionOf(k))
    /\ Defined(DefinitionOf(k), "customCheck")
    /\ ~Defined(DefinitionOf(k), "transformFunction")
    /\ Present(k)

\* the message names the option's customCheck as what failed
IsCustomCheckMessage(message, k) ==
    LET prefix == contextStr \o " : " \o k \o " must be " \o Show(Get(DefinitionOf(k), "customCheckDescription"))
    IN  Len(message) >= Len(prefix) /\ SubSeq(message, 1, Len(prefix)) = prefix

\* C22: customCheck is applied to the raw value only when the built-in type
\* check did not fail (always, for type 'custom'): a failed built-in check is
\* reported as such, a falsy customCheck result is a validation failure
\* resolved like any other, by the default or by raising, and a truthy result
\* leaves the value accepted.
C22_CustomCheck ==
    CleanCall =>
        \A k \in Declared :
            CustomCheckSupplied(k) =>
                /\ OptionOutcome(k, /\ ~BuiltInCheckFails(DefinitionOf(k), Given(k))
                                    /\ Truthy(Apply(Get(DefinitionOf(k), "customCheck"), Given(k))),
                                 Given(k))
                /\ (Declared = {k} /\ ~call.ok) =>
                        (IsCustomCheckMessage(call.err.message, k) <=> ~BuiltInCheckFails(DefinitionOf(k), Given(k)))

----------------------------------------------------------------------------
(* C23 *)

IsAlias(def) == HasTypeToken(def) /\ TypeTag(def) = "NonEmptyString"

\* the definition after is the definition before but for the fields listed
SameBut(before, after, fields) ==
    \A f \in SeqRange(DefFields) \ fields : Get(after, f) = Get(before, f)

\* the definition after is the expansion of the alias definition before
ExpandedFrom(before, after) ==
    /\ Get(after, "type") = Str("string")
    /\ Get(after, "minLength") = Num(1)
    /\ Get(after, "maxLength") = Undefined
    /\ SameBut(before, after, {"type", "minLength", "maxLength"})

\* what a call that had the value v for an option may have done to the
\* option's definition, when the definition has no nested schema: nothing,
\* or the expansion of the alias when v is there to be checked
FlatDefinitionStep(before, after, v) ==
    \/ after = before
    \/ IsAlias(before) /\ v[1] # "undefined" /\ ExpandedFrom(before, after)

\* the same for a nested schema and the nested raw value v
NestedSchemaStep(before, after, v) ==
    /\ Keys(after) = Keys(before)
    /\ \A nk \in SeqRange(Keys(before)) : FlatDefinitionStep(Get(before, nk), Get(after, nk), Get(v, nk))

\* and for a definition with an objectDefinition or an elementDefinition
DefinitionStep(before, after, v) ==
    IF Defined(before, "objectDefinition")
    THEN /\ SameBut(before, after, {"objectDefinition"})
         /\ NestedSchemaStep(Get(before, "objectDefinition"), Get(after, "objectDefinition"), v)
    ELSE IF Defined(before, "elementDefinition")
    THEN /\ SameBut(before, after, {"elementDefinition"})
         /\ \/ Get(after, "elementDefinition") = Get(before, "elementDefinition")
            \/ IsAlias(Get(before, "elementDefinition")) /\ ExpandedFrom(Get(before, "elementDefinition"), Get(after, "elementDefinition"))
    ELSE FlatDefinitionStep(before, after, v)

\* C23: the only change a call makes to the stored schema is the expansion of
\* NonEmptyString: the definition of such an option, once the option has been
\* checked, has type 'string', minLength 1 and no maxLength, so a string longer
\* than a previous maxLength is accepted; the expanded definition is left as
\* it is by later calls; no other field of any definition changes.
C23_OnlyTheAliasExpansion ==
    [][call'.op \in CleanOps =>
        /\ Keys(optionsDefinition') = Keys(optionsDefinition)
        /\ \A k \in Declared :
                /\ DefinitionStep(DefinitionOf(k), Get(optionsDefinition', k), Get(call'.arg, k))
                /\ (IsAlias(DefinitionOf(k)) /\ Get(call'.arg, k)[1] # "undefined" /\ Declared = {k}) =>
                        /\ ExpandedFrom(DefinitionOf(k), Get(optionsDefinition', k))
                        /\ (Get(call'.arg, k)[1] = "string" /\ Get(call'.arg, k)[2] # ""
                                /\ ~Defined(DefinitionOf(k), "customCheck") /\ ~Defined(DefinitionOf(k), "transformFunction")) =>
                               call'.ok /\ Properties(call'.clean)[k] = Get(call'.arg, k)]_vars

\* the string 'ab' was accepted for an option whose definition now has type
\* 'string', minLength 1 and a cleared maxLength
C23_Witness ==
    /\ call.op = "getCleanOptions"
    /\ Given("option1") = Str("ab")
    /\ Get(DefinitionOf("option1"), "type") = Str("string")
    /\ Get(DefinitionOf("option1"), "minLength") = Num(1)
    /\ "maxLength" \in DOMAIN Properties(DefinitionOf("option1"))
    /\ Get(DefinitionOf("option1"), "maxLength") = Undefined
    /\ call.ok
    /\ Properties(call.clean)["option1"] = Str("ab")

----------------------------------------------------------------------------
(* C24 *)

\* the sequence s from its last element to its first
Reverse(s) == [i \in 1..Len(s) |-> s[Len(s) + 1 - i]]

\* the schema with its entries in the opposite order
Reordered(defs) == IF defs[1] = "object" THEN Obj(defs[2], Reverse(defs[3]), defs[4]) ELSE defs

\* both raise, or both return objects with the same properties
SameCleanObject(r, c) == r.ok = c.ok /\ (r.ok => Properties(r.clean) = Properties(c.clean))

\* the option k alone is in a fatal condition for the raw object
Fatal(k, raw) ==
    ~_getCleanOptions(raw, Obj1(k, DefinitionOf(k)), contextStr, verbose, debug, strictDefault).ok

\* C24: the order of the schema's keys does not change the outcome: the call
\* raises on the schema in the opposite order iff it raises on this one, which
\* it does iff an option is in a fatal condition, and on success both return
\* objects with the same properties.
C24_KeyOrderIrrelevant ==
    [][call'.op \in CleanOps =>
        /\ SameCleanObject(_getCleanOptions(call'.arg, Reordered(optionsDefinition), contextStr, verbose, debug, strictDefault),
                           call')
        /\ ~call'.ok <=> \E k \in Declared : Fatal(k, call'.arg)]_vars

\* a call on a schema of two options raised over the second one, the first
\* having been supplied
C24_Witness ==
    /\ call.op = "getCleanOptions"
    /\ Keys(optionsDefinition) = <<"option1", "option2">>
    /\ Present("option1")
    /\ ~Present("option2")
    /\ ~call.ok
    /\ call.err.message = "ctx : No default defined for option 'option2'"

----------------------------------------------------------------------------
(* C25 *)

\* the value v fails validation against a definition that has a default
FailsWithDefault(def, v) == v[1] # "undefined" /\ FailsValidation(def, v) /\ Defined(def, "default")

LengthInBounds(def, v) ==
    /\ Defined(def, "minLength") => Len(v[2]) >= Get(def, "minLength")[2]
    /\ Defined(def, "maxLength") => Len(v[2]) <= Get(def, "maxLength")[2]

----------------------------------------------------------------------------
(* C26 *)

\* C26: a failure raised inside the check of a nested objectDefinition or
\* elementDefinition is caught and is a validation failure of the enclosing
\* option like any other: with a default and an effective strict-default of
\* false the enclosing option gets its own default and the call does not
\* raise, otherwise the call raises.
C26_NestedFailureCaught ==
    CleanCall =>
        \A k \in Declared : NestedFailure(k) => OptionOutcome(k, FALSE, Undefined)

\* the raw nested object {} lacks the required 'name', and the enclosing
\* option came back as its default 'd'
C26_Witness ==
    /\ call.op = "getCleanOptions"
    /\ NestedObjectSupplied("option1")
    /\ Given("option1") = EmptyObject
    /\ ~EffectiveStrictDefault("option1")
    /\ call.ok
    /\ Properties(call.clean)["option1"] = Str("d")

----------------------------------------------------------------------------
(* C27 *)

\* C27: repeated calls are deterministic: no call changes what any later
\* getCleanOptions(r) comes to (the same error, or an equal clean object), the
\* schema a call leaves behind giving every raw object the outcome the schema
\* before the call gives it, so that the outcome of a call is that of the same
\* call made first; and the calls leave the checker's context, verbose, debug
\* and strictDefault as they were.
C27_RepeatedCallsDeterministic ==
    [][call'.op \in CleanOps =>
        /\ UNCHANGED <<contextStr, verbose, debug, strictDefault>>
        /\ optionsDefinition' # optionsDefinition =>
                \A raw \in RawObjects(optionsDefinition) :
                    SameOutcome(_getCleanOptions(raw, optionsDefinition', contextStr, verbose, debug, strictDefault),
                                _getCleanOptions(raw, optionsDefinition, contextStr, verbose, debug, strictDefault))]_vars

\* a second call on a schema the first call has rewritten: the string 'ab' is
\* accepted for an option declared with NonEmptyString and maxLength 1, as it
\* is by a first call
C27_Witness ==
    /\ call.op = "cleanAgain"
    /\ Given("option1") = Str("ab")
    /\ "maxLength" \in DOMAIN Properties(DefinitionOf("option1"))
    /\ Get(DefinitionOf("option1"), "maxLength") = Undefined
    /\ call.ok
    /\ Properties(call.clean)["option1"] = Str("ab")

====
